---- MODULE Spec2Model ----
(***************************************************************************)
(* Model of src/src/hensel/hensel.py: Hensel lifting of a square root      *)
(* modulo prime^exponent to a square root modulo prime^(exponent + 1).     *)
(*                                                                         *)
(* hensel() and _inv() are pure functions.  A call is modelled as a small  *)
(* state machine: the arguments are drawn by Init, Validate runs the five  *)
(* checks of lines 75-97, and one of LiftTwoBase / LiftTwoSearch /         *)
(* LiftGeneral runs the branch of lines 99-157 the arguments select.       *)
(* NextLevel is the caller of the chained round trip: it feeds the value   *)
(* returned at one exponent back in at the next.                           *)
(*                                                                         *)
(* Python integers are unbounded; the bounds below keep every intermediate *)
(* value of the model below 2^31.                                          *)
(***************************************************************************)
EXTENDS Integers, Sequences, FiniteSets, TLC

VARIABLES root, prime, exponent, pc, result, first_root, first_exponent,
          a, m, inverse

vars == <<root, prime, exponent, pc, result, first_root, first_exponent,
          a, m, inverse>>

hensel_vars == <<root, prime, exponent, result, first_root, first_exponent>>
inv_vars == <<a, m, inverse>>

----------------------------------------------------------------------------
(* Bounds of the model.                                                    *)

\* largest exponent a call is made with
MaxExp == 10
\* largest value of prime^(exponent + 1) a call is made with
MaxModulus == 30000
\* roots are drawn from 0 .. RootSpan * prime^exponent
RootSpan == 3
\* _inv alone is applied to a in 1 .. MaxA and m in 2 .. MaxM
MaxA == 40
MaxM == 14

\* the primes of the doctest, lines 66-72
Primes == {2, 3, 5, 7, 11, 13, 17, 19, 23, 29, 31}

----------------------------------------------------------------------------
(* Values.  An argument carries its Python type; a result is a returned    *)
(* int, the returned None of line 140, or the exception raised.            *)

PyInt(n) == [type |-> "int", val |-> n]
PyOther(t) == [type |-> t, val |-> 0]
NonIntTypes == {"str", "dict", "list"}

Pending == [kind |-> "pending", val |-> 0, msg |-> ""]
Returned(n) == [kind |-> "int", val |-> n, msg |-> ""]
ReturnedNone == [kind |-> "None", val |-> 0, msg |-> ""]
Raised(k, text) == [kind |-> k, val |-> 0, msg |-> text]

\* lines 76-79: "'" + type(x).__name__ + "'" + ' object cannot be ...'
TypeMessage(t) ==
    CASE t = "str" -> "'str' object cannot be interpreted as an integer"
      [] t = "dict" -> "'dict' object cannot be interpreted as an integer"
      [] t = "list" -> "'list' object cannot be interpreted as an integer"
      [] OTHER -> "'int' object cannot be interpreted as an integer"

PrimeMessage == "prime must be a positive integer"
ExponentMessage == "exponent must be a nonnegative integer"
\* what the built-in pow(x, 2, n) raises when x is a float
PowFloatMessage == "pow() 3rd argument not allowed unless all arguments are integers"
\* what x % 0 raises
ModZeroMessage == "integer modulo by zero"

----------------------------------------------------------------------------
(* Arithmetic.                                                             *)

RECURSIVE Pow(_, _)
\* b ** e for e >= 0
Pow(b, e) == IF e = 0 THEN 1 ELSE b * Pow(b, e - 1)

\* pow(x, 2, n) for an int x and n >= 1
PowMod2(x, n) == (x * x) % n

RECURSIVE EgcdLoop(_, _, _, _, _, _)
\* the loop of egcd(b, n): invariant b = x0*b0 + y0*n0, n = x1*b0 + y1*n0
EgcdLoop(b, n, x0, x1, y0, y1) ==
    IF n = 0 THEN <<b, x0, y0>>
    ELSE LET q == b \div n
         IN EgcdLoop(n, b % n, x1, x0 - q * x1, y1, y0 - q * y1)

\* egcd(b, n) == (g, s, t) with b*s + n*t = g
egcd(b, n) == EgcdLoop(b, n, 1, 0, 0, 1)

\* a faulty variant: the coefficient of m instead of the coefficient of a
InvOtherCoefficient(b, n) == egcd(b, n)[3] % n

\* line 17: egcd(a, m)[1] % m (Python indexes from 0), for m # 0
_inv(b, n) == egcd(b, n)[2] % n

----------------------------------------------------------------------------
(* hensel(), lines 75-97: input validation.                                *)

Passed == [kind |-> "passed", val |-> 0, msg |-> ""]

\* a faulty variant: the range checks run before the type check of exponent
ValidateRangeFirst(r, p, e) ==
    IF r.type # "int" THEN Raised("TypeError", TypeMessage(r.type))
    ELSE IF p.type # "int" THEN Raised("TypeError", TypeMessage(p.type))
    ELSE IF p.val < 0 THEN Raised("ValueError", PrimeMessage)
    ELSE IF e.type # "int" THEN Raised("TypeError", TypeMessage(e.type))
    ELSE IF e.val < 0 THEN Raised("ValueError", ExponentMessage)
    ELSE Passed

\* the five checks in the order of the source; Passed when none raises
validate(r, p, e) ==
    IF r.type # "int" THEN Raised("TypeError", TypeMessage(r.type))
    ELSE IF p.type # "int" THEN Raised("TypeError", TypeMessage(p.type))
    ELSE IF e.type # "int" THEN Raised("TypeError", TypeMessage(e.type))
    ELSE IF p.val < 0 THEN Raised("ValueError", PrimeMessage)
    ELSE IF e.val < 0 THEN Raised("ValueError", ExponentMessage)
    ELSE Passed

----------------------------------------------------------------------------
(* hensel(), lines 99-101: the two moduli.                                 *)

prime_to_exponent(p, e) == Pow(p, e)
prime_to_exponent_plus_one(p, e) == prime_to_exponent(p, e) * p

----------------------------------------------------------------------------
(* hensel(), lines 104-140: prime == 2.                                    *)
(*                                                                         *)
(* 2 ** (exponent - 2) and 2 ** (exponent - 1) are Python floats (0.25 and *)
(* 0.5) when exponent == 0, so the model keeps every quantity of this      *)
(* branch in quarters (num4 is four times the value) together with whether *)
(* Python computed it as a float.  For exponent >= 2 everything is an int  *)
(* and num4 is a multiple of 4.                                            *)

\* a faulty variant: the lift of the root is the root itself
TwoBaseReturnsRoot(r) == Returned(r)

\* lines 105-106: exponent == 1
two_base_case(r) == Returned(1)

\* 4 * prime ** (exponent - 2), line 108
four_prime_to_exponent_minus_two(e) == Pow(2, e)
\* 4 * prime_to_exponent_minus_two * prime, line 109
four_prime_to_exponent_minus_one(e) == four_prime_to_exponent_minus_two(e) * 2
\* a negative exponent makes ** return a float
powers_are_float(e) == e - 2 < 0

\* the branch of lines 111-130 that root selects; 4 * prime ** (exponent - 1)
\* of line 116 is 2 * 2^exponent
zone(r, e) ==
    IF 4 * r < four_prime_to_exponent_minus_two(e) THEN 1
    ELSE IF 4 * r < 2 * Pow(2, e) THEN 2
    ELSE IF 4 * r < four_prime_to_exponent_minus_one(e)
                      + four_prime_to_exponent_minus_two(e) THEN 3
    ELSE 4

Candidate(n4, f) == [num4 |-> n4, float |-> f]

\* a faulty variant: the second candidate of every zone is dropped
CandidatesFirstOnly(r, e) ==
    LET pe == 4 * prime_to_exponent(2, e)
        pe1 == 4 * prime_to_exponent_plus_one(2, e)
        pm1 == four_prime_to_exponent_minus_one(e)
        f == powers_are_float(e)
    IN CASE zone(r, e) = 1 -> <<Candidate(4 * r, FALSE)>>
         [] zone(r, e) = 2 -> <<Candidate(pe - 4 * r, FALSE)>>
         [] zone(r, e) = 3 -> <<Candidate(pe + (4 * r - pm1), f)>>
         [] OTHER -> <<Candidate(pe1 + pm1 - 4 * r, f)>>

\* lines 111-130: the two candidates of root's zone, in list order
candidates(r, e) ==
    LET pe == 4 * prime_to_exponent(2, e)
        pe1 == 4 * prime_to_exponent_plus_one(2, e)
        pm1 == four_prime_to_exponent_minus_one(e)
        f == powers_are_float(e)
    IN CASE zone(r, e) = 1 ->
              <<Candidate(4 * r, FALSE), Candidate(pm1 - 4 * r, f)>>
         [] zone(r, e) = 2 ->
              <<Candidate(pe - 4 * r, FALSE), Candidate(pm1 + 4 * r, f)>>
         [] zone(r, e) = 3 ->
              <<Candidate(pe + (4 * r - pm1), f), Candidate(pe1 - 4 * r, FALSE)>>
         [] OTHER ->
              <<Candidate(pe1 + pm1 - 4 * r, f), Candidate(pe1 - pe + 4 * r, FALSE)>>

\* a faulty variant: the check compares the squares one level too low
ConsistentOneLevelLower(c, e) ==
    PowMod2(c, prime_to_exponent(2, e - 1)) = PowMod2(c, prime_to_exponent(2, e))

\* lines 133-137: pow(candidate, 2, 2^e) == pow(candidate, 2, 2^(e+1))
consistent(c, e) ==
    PowMod2(c, prime_to_exponent(2, e)) = PowMod2(c, prime_to_exponent_plus_one(2, e))

RECURSIVE search_from(_, _, _)
\* lines 132-140: the for loop from list index i on
search_from(cs, i, e) ==
    IF i > Len(cs) THEN ReturnedNone
    ELSE IF cs[i].float THEN Raised("TypeError", PowFloatMessage)
    ELSE IF consistent(cs[i].num4 \div 4, e) THEN Returned(cs[i].num4 \div 4)
    ELSE search_from(cs, i + 1, e)

\* lines 108-140: exponent != 1
two_search(r, e) == search_from(candidates(r, e), 1, e)

----------------------------------------------------------------------------
(* hensel(), lines 142-157: prime != 2.                                    *)

\* a faulty variant: the square is reduced at the higher modulus
DeltaAtHigherModulus(r, p, e) ==
    (PowMod2(r, prime_to_exponent_plus_one(p, e)) - r * r) \div prime_to_exponent(p, e)

\* lines 147-149: (pow(root, 2, prime_to_exponent) - pow(root, 2)) // prime_to_exponent
delta(r, p, e) ==
    (PowMod2(r, prime_to_exponent(p, e)) - r * r) \div prime_to_exponent(p, e)

\* a faulty variant: the inverse of 2 is left out of the correction
MultipleWithoutHalf(r, p, e) == (_inv(r, p) * (delta(r, p, e) % p)) % p

\* lines 142-152
multiple(r, p, e) ==
    (((_inv(r, p) * _inv(2, p)) % p) * (delta(r, p, e) % p)) % p

\* a faulty variant: the result is not reduced modulo prime^(exponent + 1)
LiftedUnreduced(r, p, e) == r + multiple(r, p, e) * prime_to_exponent(p, e)

\* a faulty variant: the result is reduced modulo prime^exponent
LiftedReducedAtOldModulus(r, p, e) ==
    (r + multiple(r, p, e) * prime_to_exponent(p, e)) % prime_to_exponent(p, e)

\* line 154
lifted(r, p, e) ==
    (r + multiple(r, p, e) * prime_to_exponent(p, e)) % (p * prime_to_exponent(p, e))

\* lines 142-157; _inv(root, 0) is the first operand evaluated and raises
general(r, p, e) ==
    IF p = 0 THEN Raised("ZeroDivisionError", ModZeroMessage)
    ELSE Returned(lifted(r, p, e))

----------------------------------------------------------------------------
(* The calls the model makes.                                              *)

RECURSIVE PowCapped(_, _)
\* b ** e, or some value above MaxModulus when b ** e is above MaxModulus
PowCapped(b, e) ==
    IF e = 0 THEN 1
    ELSE LET x == PowCapped(b, e - 1) IN IF x > MaxModulus THEN x ELSE b * x

\* prime and exponent pass validation with prime >= 1
Liftable(p, e) == p.type = "int" /\ e.type = "int" /\ p.val >= 1 /\ e.val >= 0

PrimeArgs ==
    {PyInt(p) : p \in Primes \cup {-1, 0}} \cup {PyOther(t) : t \in NonIntTypes}

ExponentArgs ==
    {PyInt(e) : e \in -1 .. MaxExp} \cup {PyOther(t) : t \in NonIntTypes}

RootArgs(p, e) ==
    {PyInt(r) : r \in 0 .. (IF Liftable(p, e)
                            THEN RootSpan * Pow(p.val, e.val)
                            ELSE RootSpan)}
    \cup {PyOther(t) : t \in NonIntTypes}

Init ==
    /\ prime \in PrimeArgs
    /\ exponent \in ExponentArgs
    /\ Liftable(prime, exponent) => PowCapped(prime.val, exponent.val + 1) <= MaxModulus
    /\ root \in RootArgs(prime, exponent)
    /\ first_root = root
    /\ first_exponent = exponent
    /\ pc = "call"
    /\ result = Pending
    /\ a = 0 /\ m = 0 /\ inverse = 0

\* lines 75-97
Validate ==
    /\ pc = "call"
    /\ LET v == validate(root, prime, exponent)
       IN IF v = Passed
          THEN pc' = "lift" /\ result' = result
          ELSE pc' = "done" /\ result' = v
    /\ UNCHANGED <<root, prime, exponent, first_root, first_exponent, a, m, inverse>>

\* lines 104-106
LiftTwoBase ==
    /\ pc = "lift"
    /\ prime.val = 2
    /\ exponent.val = 1
    /\ result' = two_base_case(root.val)
    /\ pc' = "done"
    /\ UNCHANGED <<root, prime, exponent, first_root, first_exponent, a, m, inverse>>

\* lines 104, 108-140
LiftTwoSearch ==
    /\ pc = "lift"
    /\ prime.val = 2
    /\ exponent.val # 1
    /\ result' = two_search(root.val, exponent.val)
    /\ pc' = "done"
    /\ UNCHANGED <<root, prime, exponent, first_root, first_exponent, a, m, inverse>>

\* lines 142-157
LiftGeneral ==
    /\ pc = "lift"
    /\ prime.val # 2
    /\ result' = general(root.val, prime.val, exponent.val)
    /\ pc' = "done"
    /\ UNCHANGED <<root, prime, exponent, first_root, first_exponent, a, m, inverse>>

\* the caller of a chain of lifts: r_(i+1) = hensel(r_i, p, i)
NextLevel ==
    /\ pc = "done"
    /\ result.kind = "int"
    /\ exponent.val + 1 <= MaxExp
    /\ PowCapped(prime.val, exponent.val + 2) <= MaxModulus
    /\ root' = PyInt(result.val)
    /\ exponent' = PyInt(exponent.val + 1)
    /\ pc' = "call"
    /\ result' = Pending
    /\ UNCHANGED <<prime, first_root, first_exponent, a, m, inverse>>

Next == Validate \/ LiftTwoBase \/ LiftTwoSearch \/ LiftGeneral \/ NextLevel

Spec == Init /\ [][Next]_vars

----------------------------------------------------------------------------
(* _inv() applied on its own to coprime arguments.                         *)

RECURSIVE Gcd(_, _)
Gcd(x, y) == IF y = 0 THEN x ELSE Gcd(y, x % y)

InitInv ==
    /\ a \in 1 .. MaxA
    /\ m \in 2 .. MaxM
    /\ Gcd(a, m) = 1
    /\ inverse = 0
    /\ pc = "inv_call"
    /\ root = PyInt(0) /\ prime = PyInt(0) /\ exponent = PyInt(0)
    /\ first_root = PyInt(0) /\ first_exponent = PyInt(0)
    /\ result = Pending

\* line 17
ApplyInv ==
    /\ pc = "inv_call"
    /\ inverse' = _inv(a, m)
    /\ pc' = "inv_done"
    /\ UNCHANGED <<a, m, hensel_vars>>

NextInv == ApplyInv

SpecInv == InitInv /\ [][NextInv]_vars

----------------------------------------------------------------------------
(* Properties.                                                             *)

\* the call in the current state passed validation with a prime of the doctest
Lifts == root.type = "int" /\ Liftable(prime, exponent) /\ prime.val \in Primes
\* ... and has returned or raised
Lifted == pc = "done" /\ Lifts

pe == prime_to_exponent(prime.val, exponent.val)
pe1 == prime_to_exponent_plus_one(prime.val, exponent.val)

\* C1: round trip of the doctest: for a prime p of the doctest, k in 0..4 and
\* 1 <= r < p^k with r mod p # 0, hensel(r, p, k) returns an integer h with
\* r^2 mod p^k = h^2 mod p^(k+1).
RoundTrip ==
    (/\ Lifted
     /\ exponent.val \in 0 .. 4
     /\ 1 <= root.val /\ root.val < pe
     /\ root.val % prime.val # 0)
    => /\ result.kind = "int"
       /\ PowMod2(root.val, pe) = PowMod2(result.val, pe1)

RoundTripWitness ==
    /\ Lifted
    /\ prime.val = 7 /\ exponent.val = 4
    /\ root.val = 2400
    /\ result.kind = "int"
    /\ result.val # root.val

\* C2: for k >= 1 and any root >= 0 with root mod p # 0, inside [0, p^k) or
\* beyond it, the returned value squares to root^2 modulo p^k, and modulo
\* p^(k+1) to the least residue of root^2 modulo p^k.
LiftInvariant ==
    (/\ Lifted
     /\ exponent.val >= 1
     /\ root.val >= 0
     /\ root.val % prime.val # 0)
    => /\ result.kind = "int"
       /\ PowMod2(result.val, pe) = PowMod2(root.val, pe)
       /\ PowMod2(result.val, pe1) = PowMod2(root.val, pe) % pe1

LiftInvariantWitness ==
    /\ Lifted
    /\ exponent.val >= 2
    /\ root.val > 2 * pe
    /\ root.val % prime.val # 0
    /\ result.kind = "int"
    /\ PowMod2(root.val, pe1) # PowMod2(root.val, pe)

\* C3: the five checks run in the order root type, prime type, exponent type,
\* prime < 0, exponent < 0, before any arithmetic, and the first failing one
\* decides the outcome; prime = 0 raises no validation error.
ValidationMessages == {TypeMessage(t) : t \in NonIntTypes} \cup {PrimeMessage, ExponentMessage}

ValidationOrder ==
    pc \in {"lift", "done"} =>
       /\ root.type # "int"
            => pc = "done" /\ result = Raised("TypeError", TypeMessage(root.type))
       /\ (root.type = "int" /\ prime.type # "int")
            => pc = "done" /\ result = Raised("TypeError", TypeMessage(prime.type))
       /\ (root.type = "int" /\ prime.type = "int" /\ exponent.type # "int")
            => pc = "done" /\ result = Raised("TypeError", TypeMessage(exponent.type))
       /\ (root.type = "int" /\ prime.type = "int" /\ exponent.type = "int"
           /\ prime.val < 0)
            => pc = "done" /\ result = Raised("ValueError", PrimeMessage)
       /\ (root.type = "int" /\ prime.type = "int" /\ exponent.type = "int"
           /\ prime.val >= 0 /\ exponent.val < 0)
            => pc = "done" /\ result = Raised("ValueError", ExponentMessage)
       /\ (root.type = "int" /\ prime.type = "int" /\ exponent.type = "int"
           /\ prime.val >= 0 /\ exponent.val >= 0)
            => /\ pc = "lift" => result = Pending
               /\ result.msg \notin ValidationMessages

ValidationOrderWitness ==
    /\ pc = "done"
    /\ root.type = "int"
    /\ prime.type = "int" /\ prime.val < 0
    /\ exponent.type # "int"
    /\ result.kind = "TypeError"

\* C4: chained lifting from exponent 0: started from r0 >= 1 with
\* r0 mod p # 0 at exponent 0, every call of the chain returns an integer and
\* r_i^2 mod p^i = r_(i+1)^2 mod p^(i+1) at every step, the first included.
ChainFromZero ==
    (/\ Lifted
     /\ first_exponent = PyInt(0)
     /\ first_root.val >= 1
     /\ first_root.val % prime.val # 0)
    => /\ result.kind = "int"
       /\ PowMod2(root.val, pe) = PowMod2(result.val, pe1)

\* C5: hensel(root, 2, 1) returns 1 for every odd root >= 0.
TwoBaseCase ==
    (/\ Lifted
     /\ prime.val = 2 /\ exponent.val = 1
     /\ root.val >= 0 /\ root.val % 2 = 1)
    => result = Returned(1)

TwoBaseCaseWitness ==
    /\ Lifted
    /\ prime.val = 2 /\ exponent.val = 1
    /\ root.val = 5
    /\ result = Returned(1)

\* C6: for an odd prime, k >= 1 and root >= 0 with root mod p # 0, the
\* multiplier c lies in [0, p), the division by p^k is exact, c is the only
\* d in [0, p) with (root + d*p^k)^2 = (root^2 mod p^k) modulo p^(k+1), and the
\* returned value is (root + c*p^k) mod p^(k+1), congruent to root modulo p^k;
\* hensel(4, 7) = 39 and hensel(2, 7, 2) = 2.
GeneralStep ==
    (/\ Lifted
     /\ prime.val # 2
     /\ exponent.val >= 1
     /\ root.val >= 0
     /\ root.val % prime.val # 0)
    => LET c == multiple(root.val, prime.val, exponent.val)
       IN /\ c \in 0 .. prime.val - 1
          /\ (PowMod2(root.val, pe) - root.val * root.val) % pe = 0
          /\ \A d \in 0 .. prime.val - 1 :
                (PowMod2(root.val + d * pe, pe1) = PowMod2(root.val, pe) % pe1)
                <=> d = c
          /\ result = Returned((root.val + c * pe) % pe1)
          /\ result.val % pe = root.val % pe
          /\ (root.val = 4 /\ prime.val = 7 /\ exponent.val = 1) => result.val = 39
          /\ (root.val = 2 /\ prime.val = 7 /\ exponent.val = 2) => result.val = 2

GeneralStepWitness ==
    /\ Lifted
    /\ prime.val = 7 /\ exponent.val = 1 /\ root.val = 4
    /\ result = Returned(39)
    /\ multiple(4, 7, 1) = 5

\* C7 as stated: for prime 2, k >= 2 and every root in [0, 2^k), odd or even,
\* one of the two candidates passes the check and an integer is returned.
SearchNeverFallsThrough ==
    (/\ Lifted
     /\ prime.val = 2 /\ exponent.val >= 2
     /\ 0 <= root.val /\ root.val < pe)
    => result.kind = "int"

\* C7 as amended: for prime 2, k >= 2 and every odd root in [0, 2^k), one of
\* the two candidates passes the check and an integer is returned.
SearchNeverFallsThroughOdd ==
    (/\ Lifted
     /\ prime.val = 2 /\ exponent.val >= 2
     /\ 0 <= root.val /\ root.val < pe
     /\ root.val % 2 = 1)
    => result.kind = "int"

SearchSecondCandidateWitness ==
    /\ Lifted
    /\ prime.val = 2 /\ exponent.val >= 3
    /\ 0 <= root.val /\ root.val < pe
    /\ root.val % 2 = 1
    /\ result.kind = "int"
    /\ result.val # candidates(root.val, exponent.val)[1].num4 \div 4
    /\ result.val = candidates(root.val, exponent.val)[2].num4 \div 4

\* C8: for prime 2, k >= 2 and any root >= 0, a returned value is the first
\* candidate of root's zone whose square is the same modulo 2^k and 2^(k+1),
\* and its square modulo 2^(k+1) is root^2 mod 2^k.
SearchSound ==
    (/\ Lifted
     /\ prime.val = 2 /\ exponent.val >= 2
     /\ root.val >= 0
     /\ result.kind = "int")
    => LET cs == candidates(root.val, exponent.val)
           passes(i) == PowMod2(cs[i].num4 \div 4, pe) = PowMod2(cs[i].num4 \div 4, pe1)
       IN /\ \E i \in 1 .. Len(cs) :
                /\ result.val = cs[i].num4 \div 4
                /\ passes(i)
                /\ \A j \in 1 .. i - 1 : ~passes(j)
          /\ PowMod2(result.val, pe1) = PowMod2(root.val, pe)

SearchSoundWitness ==
    /\ Lifted
    /\ prime.val = 2 /\ exponent.val >= 2
    /\ root.val >= pe
    /\ root.val % 2 = 0
    /\ result.kind = "int"
    /\ result.val # candidates(root.val, exponent.val)[1].num4 \div 4

\* C9: for a >= 1 and m >= 2 with gcd(a, m) = 1, _inv(a, m) is the Bezout
\* coefficient of a reduced modulo m, lies in [0, m), satisfies
\* a * x mod m = 1 and is the only such value in [0, m).
InvIsInverse ==
    pc = "inv_done" =>
       /\ egcd(a, m)[1] = 1
       /\ a * egcd(a, m)[2] + m * egcd(a, m)[3] = 1
       /\ inverse \in 0 .. m - 1
       /\ (a * inverse) % m = 1
       /\ \A y \in 0 .. m - 1 : (a * y) % m = 1 => y = inverse

InvIsInverseWitness ==
    /\ pc = "inv_done"
    /\ a > m
    /\ egcd(a, m)[2] < 0
    /\ Gcd(m, 6) = 6
    /\ inverse > 1

\* C10: for k >= 1 and 0 <= root < p^k with root mod p # 0 the result h has
\* 0 <= h < p^(k+1) and h mod p # 0; in a chain of lifts started at exponent 1
\* every value stays in [0, p^level), coprime to p, with its square modulo
\* p^level equal to the first root^2 mod p.
ChainStart == first_exponent = PyInt(1) /\ 0 <= first_root.val /\ first_root.val < prime.val
                 /\ first_root.val % prime.val # 0

Closure ==
    /\ (/\ Lifted
        /\ exponent.val >= 1
        /\ 0 <= root.val /\ root.val < pe
        /\ root.val % prime.val # 0)
       => /\ result.kind = "int"
          /\ 0 <= result.val /\ result.val < pe1
          /\ result.val % prime.val # 0
    /\ (Lifts /\ ChainStart)
       => /\ 0 <= root.val /\ root.val < pe
          /\ root.val % prime.val # 0
          /\ PowMod2(root.val, pe) = PowMod2(first_root.val, prime.val)

ClosureWitness ==
    /\ Lifted /\ ChainStart
    /\ prime.val = 5
    /\ exponent.val >= 4
    /\ result.kind = "int"
    /\ result.val > pe

====
